---------------------------- MODULE Spec2Model ----------------------------
(***************************************************************************)
(* SimplyMiply assembler (src/SMA.py) and disassembler (src/SMD.py).       *)
(*                                                                         *)
(* Text is modelled by its structure.  A binary string is a sequence of    *)
(* 0/1.  An operand string is a token [k, v, r, n]:                        *)
(*   k = "reg"   the text "%r<v>"            (v may be outside 0..31)     *)
(*   k = "int"   the decimal text of v                                     *)
(*   k = "id"    the identifier n                                          *)
(*   k = "mem"   the text "<v>(%r<r>)"                                     *)
(*   k = "mem0"  the text "(%r<r>)"                                        *)
(*   k = "empty" the empty string                                          *)
(* An instruction line is [op, args]: the mnemonic and the comma separated *)
(* operand texts after it.                                                 *)
(***************************************************************************)
EXTENDS Integers, Sequences, FiniteSets, TLC

VARIABLES
    source,           \* the lines of the input file of run_assembler
    pc,               \* position of run_assembler
    line_num,         \* number of source lines Pass 1 has consumed
    label_table,      \* label name -> instruction address
    cleaned_lines,    \* records {'line', 'addr', 'orig_line'} of Pass 1
    current_address,  \* Pass 1 address counter
    pos2,             \* number of cleaned_lines Pass 2 has consumed
    assembled_code,   \* words encoded by Pass 2
    opened,           \* the output file has been opened for writing
    outfile,          \* the lines written to the output file
    error,            \* "" or the reason of sys.exit(1)
    call,             \* a single call of a codec function: its arguments
    result,           \* what that call returned or raised
    text,             \* disassembly of the word the call returned
    cpc,              \* position of the codec call
    again,            \* assemble_line applied to the disassembled text
    binary_lines,     \* the lines of the input file of run_disassembler
    address,          \* number of input lines the disassembly pass has consumed
    disassembled_lines, \* lines collected by the disassembly pass
    dpc,              \* position of run_disassembler
    dis_opened,       \* the disassembler's output file has been opened
    dis_outfile,      \* the lines written to the disassembler's output file
    dis_error         \* "" or the reason of sys.exit(1) in run_disassembler

runVars == <<source, pc, line_num, label_table, cleaned_lines, current_address,
             pos2, assembled_code, opened, outfile, error>>
codecVars == <<call, result, text, cpc, again>>
disVars == <<binary_lines, address, disassembled_lines, dpc, dis_opened,
             dis_outfile, dis_error>>
vars == <<source, pc, line_num, label_table, cleaned_lines, current_address,
          pos2, assembled_code, opened, outfile, error, call, result, text, cpc,
          again, binary_lines, address, disassembled_lines, dpc, dis_opened,
          dis_outfile, dis_error>>

---------------------------------------------------------------------------
(* Operand texts *)

Reg(i) == [k |-> "reg", v |-> i, r |-> 0, n |-> ""]
Num(i) == [k |-> "int", v |-> i, r |-> 0, n |-> ""]
Id(s) == [k |-> "id", v |-> 0, r |-> 0, n |-> s]
Mem(off, i) == [k |-> "mem", v |-> off, r |-> i, n |-> ""]
Mem0(i) == [k |-> "mem0", v |-> 0, r |-> i, n |-> ""]
\* "off(%r<i>)" and "(%r<i>)" followed by further characters, none a comma.
MemJunk(off, i) == [k |-> "memj", v |-> off, r |-> i, n |-> ""]
Mem0Junk(i) == [k |-> "mem0j", v |-> 0, r |-> i, n |-> ""]
EmptyStr == [k |-> "empty", v |-> 0, r |-> 0, n |-> ""]

Instr(op, args) == [op |-> op, args |-> args]

---------------------------------------------------------------------------
(* Binary strings *)

WordLen == 32

Zeros(k) == [i \in 1..k |-> 0]
Ones(k) == [i \in 1..k |-> 1]

RECURSIVE BinDigits(_)
BinDigits(n) == IF n < 2 THEN <<n>> ELSE Append(BinDigits(n \div 2), n % 2)

\* Format without the zero padding.
Format_Unpadded(value, w) == BinDigits(value)

\* format(value, '0<w>b') for value >= 0: at least w digits, more when
\* the value needs more.
Format(value, w) ==
    LET d == BinDigits(value)
    IN  IF Len(d) >= w THEN d ELSE Zeros(w - Len(d)) \o d

\* binary_string[a:b] of Python: characters a+1 .. b, cut at the end.
Slice(s, a, b) == SubSeq(s, a + 1, IF b < Len(s) THEN b ELSE Len(s))

RECURSIVE bin_to_int(_)
bin_to_int(bin_str) ==
    IF bin_str = <<>> THEN 0
    ELSE 2 * bin_to_int(SubSeq(bin_str, 1, Len(bin_str) - 1)) + bin_str[Len(bin_str)]

bin_to_signed_int(bin_str) ==
    IF bin_str = <<>> THEN 0
    ELSE LET value == bin_to_int(bin_str)
             bits == Len(bin_str)
         IN  IF bin_str[1] = 1 THEN value - 2 ^ bits ELSE value

---------------------------------------------------------------------------
(* ISA tables *)

opcodes ==
    [clr  |-> <<0,0,0,0,0,0>>, cmb  |-> <<0,0,0,0,0,1>>, mns  |-> <<0,0,0,0,1,0>>,
     mlt  |-> <<0,0,0,0,1,1>>, dvd  |-> <<0,0,0,1,0,0>>, cmbi |-> <<0,0,0,1,0,1>>,
     ldwd |-> <<0,0,0,1,1,0>>, srwd |-> <<0,0,0,1,1,1>>, jmp  |-> <<0,0,1,0,0,0>>,
     pint |-> <<0,0,1,0,0,1>>, pstr |-> <<0,0,1,0,1,0>>, mnsi |-> <<0,0,1,0,1,1>>,
     mlti |-> <<0,0,1,1,0,0>>, dvdi |-> <<0,0,1,1,0,1>>, for  |-> <<0,0,1,1,1,0>>,
     sqrt |-> <<0,0,1,1,1,1>>, mdlo |-> <<0,1,0,0,0,0>>, sqr  |-> <<0,1,0,0,0,1>>,
     ife  |-> <<0,1,0,0,1,0>>, ifne |-> <<0,1,0,0,1,1>>, ldad |-> <<0,1,0,1,0,0>>,
     ldim |-> <<0,1,0,1,0,1>>, end  |-> <<1,1,1,1,1,1>>]

\* register "%r<i>" -> format(i, '05b')
registers == [i \in 0..31 |-> Format(i, 5)]

\* opcodes_to_mnemonics with the entries of cmb and mns exchanged.
opcodes_to_mnemonics_Swapped ==
    [o \in {opcodes[m] : m \in DOMAIN opcodes} |->
        IF o = opcodes["cmb"] THEN "mns"
        ELSE IF o = opcodes["mns"] THEN "cmb"
        ELSE CHOOSE m \in DOMAIN opcodes : opcodes[m] = o]

opcodes_to_mnemonics ==
    (<<0,0,0,0,0,0>> :> "clr")  @@ (<<0,0,0,0,0,1>> :> "cmb")  @@
    (<<0,0,0,0,1,0>> :> "mns")  @@ (<<0,0,0,0,1,1>> :> "mlt")  @@
    (<<0,0,0,1,0,0>> :> "dvd")  @@ (<<0,0,0,1,0,1>> :> "cmbi") @@
    (<<0,0,0,1,1,0>> :> "ldwd") @@ (<<0,0,0,1,1,1>> :> "srwd") @@
    (<<0,0,1,0,0,0>> :> "jmp")  @@ (<<0,0,1,0,0,1>> :> "pint") @@
    (<<0,0,1,0,1,0>> :> "pstr") @@ (<<0,0,1,0,1,1>> :> "mnsi") @@
    (<<0,0,1,1,0,0>> :> "mlti") @@ (<<0,0,1,1,0,1>> :> "dvdi") @@
    (<<0,0,1,1,1,0>> :> "for")  @@ (<<0,0,1,1,1,1>> :> "sqrt") @@
    (<<0,1,0,0,0,0>> :> "mdlo") @@ (<<0,1,0,0,0,1>> :> "sqr")  @@
    (<<0,1,0,0,1,0>> :> "ife")  @@ (<<0,1,0,0,1,1>> :> "ifne") @@
    (<<0,1,0,1,0,0>> :> "ldad") @@ (<<0,1,0,1,0,1>> :> "ldim") @@
    (<<1,1,1,1,1,1>> :> "end")

\* format(i, '05b') -> register "%r<i>"
registers_to_names ==
    [b \in {Format(i, 5) : i \in 0..31} |-> CHOOSE i \in 0..31 : Format(i, 5) = b]

---------------------------------------------------------------------------
(* Results of the assembler's functions: a binary string, or the error     *)
(* raised.                                                                 *)

Ok(b) == [err |-> "", bin |-> b]
Raise(e) == [err |-> e, bin |-> <<>>]

\* The error of the first failing step, in evaluation order.
FirstErr(steps) ==
    LET bad == {i \in 1..Len(steps) : steps[i].err # ""}
    IN  IF bad = {} THEN ""
        ELSE steps[CHOOSE i \in bad : \A j \in bad : i <= j].err

RECURSIVE Concat(_)
Concat(fields) ==
    IF fields = <<>> THEN <<>> ELSE Head(fields).bin \o Concat(Tail(fields))

\* Evaluate `steps` in order; when none raises, return the concatenation
\* of `fields`.
Build(steps, fields) ==
    IF FirstErr(steps) # "" THEN Raise(FirstErr(steps)) ELSE Ok(Concat(fields))

parse_register(reg_str) ==
    IF reg_str.k = "reg" /\ reg_str.v \in DOMAIN registers
    THEN Ok(registers[reg_str.v])
    ELSE Raise("InvalidRegister")

\* parse_immediate with the upper bound off by one: the largest unsigned
\* value of the field is refused.
parse_immediate_MaxRefused(imm_str, bits) ==
    IF imm_str.k # "int" THEN Raise("InvalidImmediate")
    ELSE LET value == imm_str.v
             min_val == -(2 ^ (bits - 1))
             max_val == (2 ^ bits) - 1
         IN  IF value < 0
             THEN IF value < min_val THEN Raise("InvalidImmediate")
                  ELSE Ok(Format(value % (2 ^ bits), bits))
             ELSE IF value >= max_val THEN Raise("InvalidImmediate")
                  ELSE Ok(Format(value, bits))

parse_immediate(imm_str, bits) ==
    IF imm_str.k # "int" THEN Raise("InvalidImmediate")
    ELSE LET value == imm_str.v
             min_val == -(2 ^ (bits - 1))
             max_val == (2 ^ bits) - 1
         IN  IF value < 0
             THEN IF value < min_val THEN Raise("InvalidImmediate")
                  ELSE Ok(Format(value % (2 ^ bits), bits))
             ELSE IF value > max_val THEN Raise("InvalidImmediate")
                  ELSE Ok(Format(value, bits))

\* Returns [err, offset, reg]: reg is the text "%r<digits>" as a token.
\* re.match anchors the pattern at the start of the text only, so what
\* follows the closing parenthesis is not looked at.
parse_memory_address(mem_str) ==
    IF mem_str.k \in {"mem", "memj"}
    THEN [err |-> "", offset |-> mem_str.v, reg |-> Reg(mem_str.r)]
    ELSE IF mem_str.k \in {"mem0", "mem0j"}
    THEN [err |-> "", offset |-> 0, reg |-> Reg(mem_str.r)]
    ELSE [err |-> "InvalidMemory", offset |-> 0, reg |-> EmptyStr]

\* LabelAddress with an absent label silently encoded as address 0.
LabelAddress_DefaultZero(label, table, bits) ==
    IF label.k = "id" /\ label.n \in DOMAIN table
    THEN Ok(Format(table[label.n], bits))
    ELSE Ok(Format(0, bits))

\* label_table[label], formatted on `bits` digits, or "Undefined label".
LabelAddress(label, table, bits) ==
    IF label.k = "id" /\ label.n \in DOMAIN table
    THEN Ok(Format(table[label.n], bits))
    ELSE Raise("UndefinedLabel")

\* operands_str.split(','): the empty string splits into one empty operand.
Operands(line) == IF line.args = <<>> THEN <<EmptyStr>> ELSE line.args

---------------------------------------------------------------------------
(* assemble_line(line, label_table, current_address)                       *)

assemble_line(line, table) ==
    LET op == line.op
        operands == Operands(line)
        opcode_bin == Ok(opcodes[op])
        n == Len(operands)
        count(k) == IF n # k THEN Raise("OperandCount") ELSE Ok(<<>>)
        arg(i) == IF i <= n THEN operands[i] ELSE EmptyStr
    IN
    IF op = "clr" THEN Ok(<<0,0,0,0,0,0>> \o Zeros(26))
    ELSE IF op = "end" THEN Ok(Ones(32))
    ELSE IF op \notin DOMAIN opcodes THEN Raise("UnknownInstruction")
    ELSE IF op \in {"cmb", "mns", "mlt", "dvd", "mdlo"} THEN
        LET rs == parse_register(arg(1))
            rt == parse_register(arg(2))
            rd == parse_register(arg(3))
            unused == Ok(Zeros(11))
        IN  Build(<<count(3), rs, rt, rd>>, <<opcode_bin, rs, rt, rd, unused>>)
    ELSE IF op \in {"cmbi", "mnsi", "mlti", "dvdi"} THEN
        LET rs == parse_register(arg(1))
            imm == parse_immediate(arg(2), 15)
            rd == parse_register(arg(3))
        IN  Build(<<count(3), rs, imm, rd>>, <<opcode_bin, rs, imm, rd>>)
    ELSE IF op = "ldwd" THEN
        LET mem == parse_memory_address(arg(1))
            rt == parse_register(arg(2))
            rs == parse_register(mem.reg)
            offset_bin == parse_immediate(Num(mem.offset), 16)
        IN  Build(<<count(2), mem, rt, rs, offset_bin>>,
                  <<opcode_bin, rs, rt, offset_bin>>)
    ELSE IF op = "srwd" THEN
        LET rt == parse_register(arg(1))
            mem == parse_memory_address(arg(2))
            rs == parse_register(mem.reg)
            offset_bin == parse_immediate(Num(mem.offset), 16)
        IN  Build(<<count(2), rt, mem, rs, offset_bin>>,
                  <<opcode_bin, rs, rt, offset_bin>>)
    ELSE IF op = "jmp" THEN
        LET address_bin == LabelAddress(arg(1), table, 26)
        IN  Build(<<count(1), address_bin>>, <<opcode_bin, address_bin>>)
    ELSE IF op = "pint" THEN
        LET rs == parse_register(arg(1))
            unused == Ok(Zeros(21))
        IN  Build(<<count(1), rs>>, <<opcode_bin, rs, unused>>)
    ELSE IF op = "pstr" THEN
        LET mem == parse_memory_address(arg(1))
            rs == parse_register(mem.reg)
            offset_bin == parse_immediate(Num(mem.offset), 21)
        IN  Build(<<count(1), mem, rs, offset_bin>>, <<opcode_bin, offset_bin, rs>>)
    ELSE IF op = "for" THEN
        LET rs == parse_register(arg(1))
            address_bin == LabelAddress(arg(2), table, 21)
        IN  Build(<<count(2), rs, address_bin>>, <<opcode_bin, rs, address_bin>>)
    ELSE IF op \in {"sqrt", "sqr"} THEN
        LET rs == parse_register(arg(1))
            rd == parse_register(arg(2))
            unused == Ok(Zeros(16))
        IN  Build(<<count(2), rs, rd>>, <<opcode_bin, rs, rd, unused>>)
    ELSE IF op \in {"ife", "ifne"} THEN
        LET rs == parse_register(arg(1))
            rt == parse_register(arg(2))
            address_bin == LabelAddress(arg(3), table, 16)
        IN  Build(<<count(3), rs, rt, address_bin>>,
                  <<opcode_bin, rs, rt, address_bin>>)
    ELSE IF op = "ldad" THEN
        LET rd == parse_register(arg(2))
            address_bin == LabelAddress(arg(1), table, 21)
        IN  Build(<<count(2), rd, address_bin>>, <<opcode_bin, address_bin, rd>>)
    ELSE IF op = "ldim" THEN
        LET imm == parse_immediate(arg(1), 21)
            rd == parse_register(arg(2))
        IN  Build(<<count(2), imm, rd>>, <<opcode_bin, imm, rd>>)
    ELSE Raise("NotImplemented")

---------------------------------------------------------------------------
(* disassemble_instruction(binary_string, address): the rendered line as   *)
(* [op, args], or an error marker [op |-> "; Error: ...", args]; the args  *)
(* of a marker hold the address it shows, when it shows one (the word the  *)
(* marker echoes is left out).                                             *)

get_register_name(reg_bin) ==
    IF reg_bin \in DOMAIN registers_to_names
    THEN Reg(registers_to_names[reg_bin])
    ELSE [k |-> "invalid", v |-> 0, r |-> 0, n |-> ""]

ErrLength(address_) == Instr("; Error: Invalid instruction length", <<Num(address_)>>)
ErrOpcode(address_) == Instr("; Error: Unknown opcode", <<Num(address_)>>)
ErrNotImplemented == Instr("; Error: Disassembly logic not implemented", <<>>)

disassemble_instruction(binary_string, address_) ==
    LET opcode_bin == Slice(binary_string, 0, 6)
        mnemonic == opcodes_to_mnemonics[opcode_bin]
        reg(a, b) == get_register_name(Slice(binary_string, a, b))
        uint(a, b) == Num(bin_to_int(Slice(binary_string, a, b)))
        sint(a, b) == bin_to_signed_int(Slice(binary_string, a, b))
    IN
    IF Len(binary_string) # 32 THEN ErrLength(address_)
    ELSE IF binary_string = Ones(32) THEN Instr("end", <<>>)
    ELSE IF binary_string = Zeros(32) /\ opcode_bin = <<0,0,0,0,0,0>>
         THEN Instr("clr", <<>>)
    ELSE IF opcode_bin \notin DOMAIN opcodes_to_mnemonics THEN ErrOpcode(address_)
    ELSE IF mnemonic \in {"cmb", "mns", "mlt", "dvd", "mdlo"} THEN
        Instr(mnemonic, <<reg(6, 11), reg(11, 16), reg(16, 21)>>)
    ELSE IF mnemonic \in {"cmbi", "mnsi", "mlti", "dvdi"} THEN
        Instr(mnemonic, <<reg(6, 11), uint(11, 26), reg(26, 31)>>)
    ELSE IF mnemonic = "ldwd" THEN
        Instr(mnemonic, <<Mem(sint(16, 32), reg(6, 11).v), reg(11, 16)>>)
    ELSE IF mnemonic = "srwd" THEN
        Instr(mnemonic, <<reg(11, 16), Mem(sint(16, 32), reg(6, 11).v)>>)
    ELSE IF mnemonic = "jmp" THEN
        Instr(mnemonic, <<uint(6, 32)>>)
    ELSE IF mnemonic = "pint" THEN
        Instr(mnemonic, <<reg(6, 11)>>)
    ELSE IF mnemonic = "pstr" THEN
        Instr(mnemonic, <<Mem(sint(6, 27), reg(27, 32).v)>>)
    ELSE IF mnemonic = "for" THEN
        Instr(mnemonic, <<reg(6, 11), uint(11, 32)>>)
    ELSE IF mnemonic \in {"sqrt", "sqr"} THEN
        Instr(mnemonic, <<reg(6, 11), reg(11, 16)>>)
    ELSE IF mnemonic \in {"ife", "ifne"} THEN
        Instr(mnemonic, <<reg(6, 11), reg(11, 16), uint(16, 32)>>)
    ELSE IF mnemonic = "ldad" THEN
        Instr(mnemonic, <<uint(6, 27), reg(27, 32)>>)
    ELSE IF mnemonic = "ldim" THEN
        Instr(mnemonic, <<Num(sint(6, 27)), reg(27, 32)>>)
    ELSE ErrNotImplemented

---------------------------------------------------------------------------
(* run_assembler(input_filename, output_filename)                          *)
(*                                                                         *)
(* A source line is [k, cmt, name, ins]: k = "blank" (nothing before the   *)
(* comment marker), k = "label" (the text "<name>:"), k = "instr" (any     *)
(* other text, held as the instruction ins); cmt tells whether a '#'       *)
(* comment follows.                                                        *)

NoInstr == Instr("", <<>>)
Blank == [k |-> "blank", cmt |-> FALSE, name |-> "", ins |-> NoInstr]
Comment == [k |-> "blank", cmt |-> TRUE, name |-> "", ins |-> NoInstr]
Label(l) == [k |-> "label", cmt |-> FALSE, name |-> l, ins |-> NoInstr]
LabelC(l) == [k |-> "label", cmt |-> TRUE, name |-> l, ins |-> NoInstr]
Code(op, args) == [k |-> "instr", cmt |-> FALSE, name |-> "", ins |-> Instr(op, args)]
CodeC(op, args) == [k |-> "instr", cmt |-> TRUE, name |-> "", ins |-> Instr(op, args)]

\* line.split('#')[0].strip()
line_stripped(line) == [line EXCEPT !.cmt = FALSE]

MaxLines == 3

Lines ==
    { Blank, Comment, Label("skip"), LabelC("skip"), LabelC("loop"),
      CodeC("ldim", <<Num(10), Reg(1)>>),
      Code("ife", <<Reg(1), Reg(2), Id("skip")>>),
      Code("ifne", <<Reg(1), Reg(2), Id("loop")>>),
      Code("jmp", <<Id("loop")>>),
      Code("for", <<Reg(3), Id("skip")>>),
      Code("ldad", <<Id("skip"), Reg(4)>>),
      Code("cmbi", <<Reg(3), Num(100), Reg(5)>>),
      Code("bogus", <<Reg(1)>>),
      Code("pint", <<Reg(32)>>),
      Code("ldim", <<Num(2097152), Reg(1)>>),
      Code("cmb", <<Reg(1), Reg(2)>>),
      Code("end", <<>>) }

Sources == UNION {[1..n -> Lines] : n \in 0..MaxLines}

EmptyTable == [l \in {} |-> 0]

NoCall == [fn |-> "", line |-> NoInstr, table |-> EmptyTable, tok |-> EmptyStr,
           bits |-> 0, word |-> <<>>]
NoResult == Raise("pending")

Init ==
    /\ source \in Sources
    /\ pc = "pass1"
    /\ line_num = 0
    /\ label_table = EmptyTable
    /\ cleaned_lines = <<>>
    /\ current_address = 0
    /\ pos2 = 0
    /\ assembled_code = <<>>
    /\ opened = FALSE
    /\ outfile = <<>>
    /\ error = ""
    /\ call = NoCall
    /\ result = NoResult
    /\ text = NoInstr
    /\ cpc = "idle"
    /\ again = NoResult
    /\ binary_lines = <<>>
    /\ address = 0
    /\ disassembled_lines = <<>>
    /\ dpc = "idle"
    /\ dis_opened = FALSE
    /\ dis_outfile = <<>>
    /\ dis_error = ""

\* The line the Pass 1 loop is at, cleaned.
CurrentLine == line_stripped(source[line_num + 1])

Exit(reason) ==
    /\ pc' = "exit"
    /\ error' = reason

\* Pass 1, a line that is empty after cleaning: continue.
Pass1Blank ==
    /\ pc = "pass1" /\ line_num < Len(source)
    /\ CurrentLine.k = "blank"
    /\ line_num' = line_num + 1
    /\ UNCHANGED <<source, pc, label_table, cleaned_lines, current_address, pos2,
                   assembled_code, opened, outfile, error, call, result, text, cpc,
                   again, disVars>>

\* Pass1Label binding the label to its source line number.
Pass1Label_LineNumber ==
    /\ pc = "pass1" /\ line_num < Len(source)
    /\ CurrentLine.k = "label"
    /\ CurrentLine.name \notin DOMAIN label_table
    /\ label_table' = (CurrentLine.name :> line_num + 1) @@ label_table
    /\ line_num' = line_num + 1
    /\ UNCHANGED <<source, pc, cleaned_lines, current_address, pos2,
                   assembled_code, opened, outfile, error, call, result, text, cpc,
                   again, disVars>>

\* Pass 1, a label definition whose label is new.
Pass1Label ==
    /\ pc = "pass1" /\ line_num < Len(source)
    /\ CurrentLine.k = "label"
    /\ CurrentLine.name \notin DOMAIN label_table
    /\ label_table' = (CurrentLine.name :> current_address) @@ label_table
    /\ line_num' = line_num + 1
    /\ UNCHANGED <<source, pc, cleaned_lines, current_address, pos2,
                   assembled_code, opened, outfile, error, call, result, text, cpc,
                   again, disVars>>

\* Pass1DuplicateLabel without the check: the label is bound again and
\* Pass 1 goes on.
Pass1DuplicateLabel_Rebind ==
    /\ pc = "pass1" /\ line_num < Len(source)
    /\ CurrentLine.k = "label"
    /\ CurrentLine.name \in DOMAIN label_table
    /\ label_table' = [label_table EXCEPT ![CurrentLine.name] = current_address]
    /\ line_num' = line_num + 1
    /\ UNCHANGED <<source, pc, cleaned_lines, current_address, pos2,
                   assembled_code, opened, outfile, error, call, result, text, cpc,
                   again, disVars>>

\* Pass 1, a label definition whose label is already bound: ValueError,
\* caught at the end of Pass 1, sys.exit(1).
Pass1DuplicateLabel ==
    /\ pc = "pass1" /\ line_num < Len(source)
    /\ CurrentLine.k = "label"
    /\ CurrentLine.name \in DOMAIN label_table
    /\ line_num' = line_num + 1
    /\ Exit("pass1")
    /\ UNCHANGED <<source, label_table, cleaned_lines, current_address, pos2,
                   assembled_code, opened, outfile, call, result, text, cpc,
                   again, disVars>>

\* Pass 1, any other line: recorded with the current address.
Pass1Instruction ==
    /\ pc = "pass1" /\ line_num < Len(source)
    /\ CurrentLine.k = "instr"
    /\ cleaned_lines' = Append(cleaned_lines,
           [line |-> CurrentLine.ins, addr |-> current_address,
            orig_line |-> line_num + 1])
    /\ current_address' = current_address + 1
    /\ line_num' = line_num + 1
    /\ UNCHANGED <<source, pc, label_table, pos2,
                   assembled_code, opened, outfile, error, call, result, text, cpc,
                   again, disVars>>

\* The input is exhausted: Pass 2 starts.
Pass1Complete ==
    /\ pc = "pass1" /\ line_num = Len(source)
    /\ pc' = "pass2"
    /\ UNCHANGED <<source, line_num, label_table, cleaned_lines, current_address, pos2,
                   assembled_code, opened, outfile, error, call, result, text, cpc,
                   again, disVars>>

\* binary_code of a one-pass assembler: only the labels defined before the
\* instruction are known when it is encoded.
binary_code_OnePass ==
    assemble_line(cleaned_lines[pos2 + 1].line,
                  [l \in {x \in DOMAIN label_table :
                              label_table[x] <= cleaned_lines[pos2 + 1].addr}
                      |-> label_table[l]])

\* The word of the cleaned line the Pass 2 loop is at.
binary_code == assemble_line(cleaned_lines[pos2 + 1].line, label_table)

\* Pass 2, a line that assembles to a word of 32 characters.
Pass2Encode ==
    /\ pc = "pass2" /\ pos2 < Len(cleaned_lines)
    /\ binary_code.err = ""
    /\ Len(binary_code.bin) = WordLen
    /\ assembled_code' = Append(assembled_code, binary_code.bin)
    /\ pos2' = pos2 + 1
    /\ UNCHANGED <<source, pc, line_num, label_table, cleaned_lines, current_address,
                   opened, outfile, error, call, result, text, cpc,
                   again, disVars>>

\* Pass2Error that reports the error and goes on with the next line.
Pass2Error_Continue ==
    /\ pc = "pass2" /\ pos2 < Len(cleaned_lines)
    /\ binary_code.err # ""
    /\ pos2' = pos2 + 1
    /\ UNCHANGED <<source, pc, line_num, label_table, cleaned_lines, current_address,
                   assembled_code, opened, outfile, error, call, result, text, cpc,
                   again, disVars>>

\* Pass 2, assemble_line raises ValueError or NotImplementedError: sys.exit(1).
Pass2Error ==
    /\ pc = "pass2" /\ pos2 < Len(cleaned_lines)
    /\ binary_code.err # ""
    /\ Exit("pass2")
    /\ UNCHANGED <<source, line_num, label_table, cleaned_lines, current_address, pos2,
                   assembled_code, opened, outfile, call, result, text, cpc,
                   again, disVars>>

\* Pass2WidthError that keeps the last 32 characters of a longer word, adds
\* zeros to a shorter one, and goes on.
Pass2WidthError_Truncate ==
    /\ pc = "pass2" /\ pos2 < Len(cleaned_lines)
    /\ binary_code.err = ""
    /\ Len(binary_code.bin) # WordLen
    /\ assembled_code' = Append(assembled_code,
           IF Len(binary_code.bin) > WordLen
           THEN SubSeq(binary_code.bin, Len(binary_code.bin) - WordLen + 1,
                       Len(binary_code.bin))
           ELSE binary_code.bin \o Zeros(WordLen - Len(binary_code.bin)))
    /\ pos2' = pos2 + 1
    /\ UNCHANGED <<source, pc, line_num, label_table, cleaned_lines, current_address,
                   opened, outfile, error, call, result, text, cpc,
                   again, disVars>>

\* Pass 2, the word is not 32 characters long: ValueError, sys.exit(1).
Pass2WidthError ==
    /\ pc = "pass2" /\ pos2 < Len(cleaned_lines)
    /\ binary_code.err = ""
    /\ Len(binary_code.bin) # WordLen
    /\ Exit("width")
    /\ UNCHANGED <<source, line_num, label_table, cleaned_lines, current_address, pos2,
                   assembled_code, opened, outfile, call, result, text, cpc,
                   again, disVars>>

\* Every cleaned line is encoded: go on to write the output.
Pass2Complete ==
    /\ pc = "pass2" /\ pos2 = Len(cleaned_lines)
    /\ pc' = "open"
    /\ UNCHANGED <<source, line_num, label_table, cleaned_lines, current_address, pos2,
                   assembled_code, opened, outfile, error, call, result, text, cpc,
                   again, disVars>>

\* open(output_filename, "w")
OpenOutput ==
    /\ pc = "open"
    /\ opened' = TRUE
    /\ outfile' = <<>>
    /\ pc' = "write"
    /\ UNCHANGED <<source, line_num, label_table, cleaned_lines, current_address, pos2,
                   assembled_code, error, call, result, text, cpc,
                   again, disVars>>

\* WriteLine taking the words from the end of assembled_code.
WriteLine_Reversed ==
    /\ pc = "write" /\ Len(outfile) < Len(assembled_code)
    /\ outfile' = Append(outfile, assembled_code[Len(assembled_code) - Len(outfile)])
    /\ UNCHANGED <<source, pc, line_num, label_table, cleaned_lines, current_address,
                   pos2, assembled_code, opened, error, call, result, text, cpc,
                   again, disVars>>

\* outfile.write(binary_line + "\n")
WriteLine ==
    /\ pc = "write" /\ Len(outfile) < Len(assembled_code)
    /\ outfile' = Append(outfile, assembled_code[Len(outfile) + 1])
    /\ UNCHANGED <<source, pc, line_num, label_table, cleaned_lines, current_address,
                   pos2, assembled_code, opened, error, call, result, text, cpc,
                   again, disVars>>

\* The with block ends: "Assembly complete".
CloseOutput ==
    /\ pc = "write" /\ Len(outfile) = Len(assembled_code)
    /\ pc' = "done"
    /\ UNCHANGED <<source, line_num, label_table, cleaned_lines, current_address, pos2,
                   assembled_code, opened, outfile, error, call, result, text, cpc,
                   again, disVars>>

\* The file system refuses the open or a write: IOError, sys.exit(1).
WriteIOError ==
    /\ pc \in {"open", "write"}
    /\ Exit("io")
    /\ UNCHANGED <<source, line_num, label_table, cleaned_lines, current_address, pos2,
                   assembled_code, opened, outfile, call, result, text, cpc,
                   again, disVars>>

Next ==
    \/ Pass1Blank
    \/ Pass1Label
    \/ Pass1DuplicateLabel
    \/ Pass1Instruction
    \/ Pass1Complete
    \/ Pass2Encode
    \/ Pass2Error
    \/ Pass2WidthError
    \/ Pass2Complete
    \/ OpenOutput
    \/ WriteLine
    \/ CloseOutput
    \/ WriteIOError

Spec == Init /\ [][Next]_vars

---------------------------------------------------------------------------
(* Single calls of the codec functions: assemble_line on one line and one  *)
(* label table, then disassemble_instruction on the word it returned; and  *)
(* parse_immediate on one operand.                                         *)

RegSamples == {0, 1, 10, 21, 31}
AllRegs == 0..31

\* Values at and around the ends of the signed and unsigned ranges of a
\* field of w bits.
ImmSamples(w) ==
    {-(2 ^ (w - 1)) - 1, -(2 ^ (w - 1)), -1, 0, 10,
     2 ^ (w - 1) - 1, 2 ^ (w - 1), 2 ^ w - 1, 2 ^ w}

MemSamples(w) ==
    {Mem(o, r) : o \in ImmSamples(w), r \in {0, 31}} \cup {Mem0(5), Mem(4, 32)}

LabelNames == {"skip", "loop"}

CodecTables ==
    { EmptyTable,
      ("skip" :> 2),
      ("skip" :> 65535) @@ ("loop" :> 0),
      ("skip" :> 65536) @@ ("loop" :> 2097151),
      ("skip" :> 2097152) @@ ("loop" :> 67108863),
      ("loop" :> 67108864) }

CodecLines ==
    {Instr(op, <<Reg(a), Reg(b), Reg(c)>>) :
        op \in {"cmb", "mns", "mlt", "dvd", "mdlo"},
        a \in RegSamples, b \in RegSamples, c \in RegSamples}
    \cup {Instr(op, <<Reg(a), Num(i), Reg(c)>>) :
        op \in {"cmbi", "mnsi", "mlti", "dvdi"},
        a \in {1, 31}, i \in ImmSamples(15), c \in {0, 21}}
    \cup {Instr("ldwd", <<m, Reg(b)>>) : m \in MemSamples(16), b \in {1, 10}}
    \cup {Instr("srwd", <<Reg(b), m>>) : m \in MemSamples(16), b \in {1, 10}}
    \cup {Instr("jmp", <<Id(l)>>) : l \in LabelNames}
    \cup {Instr("pint", <<Reg(a)>>) : a \in 0..32}
    \cup {Instr("pstr", <<m>>) : m \in MemSamples(21)}
    \cup {Instr("for", <<Reg(a), Id(l)>>) : a \in RegSamples, l \in LabelNames}
    \cup {Instr(op, <<Reg(a), Reg(b)>>) :
        op \in {"sqrt", "sqr"}, a \in AllRegs, b \in RegSamples}
    \cup {Instr(op, <<Reg(a), Reg(b), Id(l)>>) :
        op \in {"ife", "ifne"}, a \in RegSamples, b \in RegSamples, l \in LabelNames}
    \cup {Instr("ldad", <<Id(l), Reg(a)>>) : a \in RegSamples, l \in LabelNames}
    \cup {Instr("ldim", <<Num(i), Reg(a)>>) : i \in ImmSamples(21), a \in RegSamples}
    \cup {Instr("clr", <<>>), Instr("end", <<>>),
          Instr("clr", <<Reg(1)>>), Instr("end", <<Num(3)>>),
          Instr("bogus", <<Reg(1)>>), Instr("pint", <<>>),
          Instr("jmp", <<>>), Instr("jmp", <<Num(5)>>),
          Instr("cmb", <<Reg(1), Reg(2)>>), Instr("ldim", <<Reg(1), Num(3)>>),
          Instr("ldwd", <<Reg(1), Reg(2)>>), Instr("sqr", <<Reg(1)>>),
          Instr("ife", <<Reg(1), Id("skip")>>),
          Instr("ldad", <<Id("skip"), Reg(1), Reg(2)>>),
          Instr("ldwd", <<MemJunk(4, 1), Reg(2)>>),
          Instr("srwd", <<Reg(2), Mem0Junk(1)>>),
          Instr("pstr", <<MemJunk(-3, 31)>>), Instr("pstr", <<MemJunk(4, 32)>>),
          Instr("pstr", <<Reg(1)>>), Instr("pstr", <<Num(4)>>),
          Instr("pstr", <<Id("skip")>>)}

FieldWidths == {15, 16, 21}

\* The 64 six-bit opcode fields, and 32-bit words over each of them.
OpcodeFields == {Format(n, 6) : n \in 0..63}

TailSamples == {Zeros(26), Ones(26), Format(5, 26), <<1>> \o Zeros(25)}

OpcodeWords == {o \o t : o \in OpcodeFields, t \in TailSamples}

\* Operand texts given to parse_memory_address.
MemTexts ==
    {Mem(4, 1), Mem(-3, 31), Mem(0, 0), Mem(4, 32), Mem0(5), Mem0(32),
     MemJunk(4, 1), MemJunk(-3, 31), MemJunk(4, 32), Mem0Junk(5),
     Reg(1), Num(4), Id("skip"), EmptyStr}

Calls ==
    {[fn |-> "assemble_line", line |-> l, table |-> t, tok |-> EmptyStr, bits |-> 0,
      word |-> <<>>] :
        l \in CodecLines, t \in CodecTables}
    \cup {[fn |-> "parse_immediate", line |-> NoInstr, table |-> EmptyTable,
           tok |-> Num(v), bits |-> w, word |-> <<>>] :
        w \in FieldWidths, v \in UNION {ImmSamples(x) : x \in FieldWidths}}
    \cup {[fn |-> "parse_immediate", line |-> NoInstr, table |-> EmptyTable,
           tok |-> t, bits |-> w, word |-> <<>>] :
        w \in FieldWidths, t \in {Reg(1), Id("skip"), EmptyStr}}
    \cup {[fn |-> "parse_memory_address", line |-> NoInstr, table |-> EmptyTable,
           tok |-> t, bits |-> 0, word |-> <<>>] :
        t \in MemTexts}
    \cup {[fn |-> "disassemble_instruction", line |-> NoInstr, table |-> EmptyTable,
           tok |-> EmptyStr, bits |-> 0, word |-> w] :
        w \in OpcodeWords}

CodecInit ==
    /\ source = <<>>
    /\ pc = "idle"
    /\ line_num = 0
    /\ label_table = EmptyTable
    /\ cleaned_lines = <<>>
    /\ current_address = 0
    /\ pos2 = 0
    /\ assembled_code = <<>>
    /\ opened = FALSE
    /\ outfile = <<>>
    /\ error = ""
    /\ call \in Calls
    /\ result = NoResult
    /\ text = NoInstr
    /\ cpc = "call"
    /\ again = NoResult
    /\ binary_lines = <<>>
    /\ address = 0
    /\ disassembled_lines = <<>>
    /\ dpc = "idle"
    /\ dis_opened = FALSE
    /\ dis_outfile = <<>>
    /\ dis_error = ""

CallAssembleLine ==
    /\ cpc = "call" /\ call.fn = "assemble_line"
    /\ result' = assemble_line(call.line, call.table)
    /\ cpc' = "returned"
    /\ UNCHANGED <<source, pc, line_num, label_table, cleaned_lines, current_address,
                   pos2, assembled_code, opened, outfile, error, call, text,
                   again, disVars>>

CallParseImmediate ==
    /\ cpc = "call" /\ call.fn = "parse_immediate"
    /\ result' = parse_immediate(call.tok, call.bits)
    /\ cpc' = "returned"
    /\ UNCHANGED <<source, pc, line_num, label_table, cleaned_lines, current_address,
                   pos2, assembled_code, opened, outfile, error, call, text,
                   again, disVars>>

\* The word assemble_line returned is given to disassemble_instruction.
CallDisassemble ==
    /\ cpc = "returned" /\ call.fn = "assemble_line"
    /\ result.err = ""
    /\ text' = disassemble_instruction(result.bin, 0)
    /\ cpc' = "decoded"
    /\ UNCHANGED <<source, pc, line_num, label_table, cleaned_lines, current_address,
                   pos2, assembled_code, opened, outfile, error, call, result,
                   again, disVars>>

\* parse_memory_address on one operand text; the result is [err, offset, reg].
CallParseMemoryAddress ==
    /\ cpc = "call" /\ call.fn = "parse_memory_address"
    /\ result' = parse_memory_address(call.tok)
    /\ cpc' = "returned"
    /\ UNCHANGED <<source, pc, line_num, label_table, cleaned_lines, current_address,
                   pos2, assembled_code, opened, outfile, error, call, text,
                   again, disVars>>

\* CallDisassembleWord with end and clr decided by the opcode field alone.
CallDisassembleWord_OpcodeOnly ==
    /\ cpc = "call" /\ call.fn = "disassemble_instruction"
    /\ text' = IF Slice(call.word, 0, 6) = Ones(6) THEN Instr("end", <<>>)
               ELSE IF Slice(call.word, 0, 6) = Zeros(6) THEN Instr("clr", <<>>)
               ELSE disassemble_instruction(call.word, 0)
    /\ cpc' = "decoded"
    /\ UNCHANGED <<source, pc, line_num, label_table, cleaned_lines, current_address,
                   pos2, assembled_code, opened, outfile, error, call, result,
                   again, disVars>>

\* disassemble_instruction on a word that need not come from the assembler.
CallDisassembleWord ==
    /\ cpc = "call" /\ call.fn = "disassemble_instruction"
    /\ text' = disassemble_instruction(call.word, 0)
    /\ cpc' = "decoded"
    /\ UNCHANGED <<source, pc, line_num, label_table, cleaned_lines, current_address,
                   pos2, assembled_code, opened, outfile, error, call, result,
                   again, disVars>>

\* The disassembled text is given back to assemble_line, with the label
\* table of the first call.
CallReassemble ==
    /\ cpc = "decoded"
    /\ again' = assemble_line(text, call.table)
    /\ cpc' = "reassembled"
    /\ UNCHANGED <<source, pc, line_num, label_table, cleaned_lines, current_address,
                   pos2, assembled_code, opened, outfile, error, call, result, text,
                   disVars>>

CodecNext ==
    \/ CallAssembleLine
    \/ CallParseImmediate
    \/ CallParseMemoryAddress
    \/ CallDisassemble
    \/ CallDisassembleWord
    \/ CallReassemble

SpecCodec == CodecInit /\ [][CodecNext]_vars

---------------------------------------------------------------------------
(* What the specification calls a valid instruction (section 4.1): the     *)
(* operands its format asks for, registers %r0..%r31, immediates and       *)
(* offsets inside the documented range of their field, labels defined and  *)
(* their address inside the address field.                                 *)

IsReg(t) == t.k = "reg" /\ t.v \in 0..31
InRange(v, w, signed) ==
    IF signed THEN -(2 ^ (w - 1)) <= v /\ v <= 2 ^ (w - 1) - 1
    ELSE 0 <= v /\ v <= 2 ^ w - 1
IsImm(t, w, signed) == t.k = "int" /\ InRange(t.v, w, signed)
IsMem(t, w) == t.k \in {"mem", "mem0"} /\ t.r \in 0..31 /\ InRange(t.v, w, TRUE)
IsLabel(t, table, w) ==
    t.k = "id" /\ t.n \in DOMAIN table /\ InRange(table[t.n], w, FALSE)

ValidInstr(line, table) ==
    LET op == line.op
        a == line.args
        n == Len(a)
    IN  \/ op \in {"clr", "end"} /\ n = 0
        \/ op \in {"cmb", "mns", "mlt", "dvd", "mdlo"} /\ n = 3
           /\ IsReg(a[1]) /\ IsReg(a[2]) /\ IsReg(a[3])
        \/ op \in {"cmbi", "mnsi", "mlti", "dvdi"} /\ n = 3
           /\ IsReg(a[1]) /\ IsImm(a[2], 15, FALSE) /\ IsReg(a[3])
        \/ op = "ldwd" /\ n = 2 /\ IsMem(a[1], 16) /\ IsReg(a[2])
        \/ op = "srwd" /\ n = 2 /\ IsReg(a[1]) /\ IsMem(a[2], 16)
        \/ op = "jmp" /\ n = 1 /\ IsLabel(a[1], table, 26)
        \/ op = "pint" /\ n = 1 /\ IsReg(a[1])
        \/ op = "pstr" /\ n = 1 /\ IsMem(a[1], 21)
        \/ op = "for" /\ n = 2 /\ IsReg(a[1]) /\ IsLabel(a[2], table, 21)
        \/ op \in {"sqrt", "sqr"} /\ n = 2 /\ IsReg(a[1]) /\ IsReg(a[2])
        \/ op \in {"ife", "ifne"} /\ n = 3
           /\ IsReg(a[1]) /\ IsReg(a[2]) /\ IsLabel(a[3], table, 16)
        \/ op = "ldad" /\ n = 2 /\ IsLabel(a[1], table, 21) /\ IsReg(a[2])
        \/ op = "ldim" /\ n = 2 /\ IsImm(a[1], 21, TRUE) /\ IsReg(a[2])

\* Canonical rendering: a label as its resolved address, "(%rN)" as "0(%rN)".
CanonicalOperand(t, table) ==
    IF t.k = "id" THEN Num(table[t.n])
    ELSE IF t.k = "mem0" THEN Mem(0, t.r)
    ELSE t

Canonical(line, table) ==
    Instr(line.op, [i \in 1..Len(line.args) |-> CanonicalOperand(line.args[i], table)])

\* The immediate or offset operand of a line, with the width and the
\* signedness of its field (section 4.1).
ImmOps == {"cmbi", "mnsi", "mlti", "dvdi", "ldwd", "srwd", "pstr", "ldim"}
ImmPos(op) == IF op \in {"cmbi", "mnsi", "mlti", "dvdi", "srwd"} THEN 2 ELSE 1
ImmWidth(op) ==
    IF op \in {"cmbi", "mnsi", "mlti", "dvdi"} THEN 15
    ELSE IF op \in {"ldwd", "srwd"} THEN 16 ELSE 21
ImmSigned(op) == op \notin {"cmbi", "mnsi", "mlti", "dvdi"}
HasImm(line) ==
    /\ line.op \in ImmOps
    /\ Len(line.args) >= ImmPos(line.op)
    /\ line.args[ImmPos(line.op)].k \in {"int", "mem", "mem0"}
ImmValue(line) == line.args[ImmPos(line.op)].v

\* The label operand of a line and the place of its address field:
\* binary_string[AddrStart : AddrStart + AddrWidth].
LabelOps == {"jmp", "for", "ife", "ifne", "ldad"}
LabelPos(op) ==
    IF op \in {"jmp", "ldad"} THEN 1 ELSE IF op = "for" THEN 2 ELSE 3
AddrStart(op) ==
    IF op \in {"jmp", "ldad"} THEN 6 ELSE IF op = "for" THEN 11 ELSE 16
AddrWidth(op) ==
    IF op = "jmp" THEN 26 ELSE IF op \in {"for", "ldad"} THEN 21 ELSE 16

\* A line of one of the five label instructions whose label operand is not
\* in `table`.
UndefinedRef(line, table) ==
    /\ line.op \in LabelOps
    /\ Len(line.args) >= LabelPos(line.op)
    /\ ~(line.args[LabelPos(line.op)].k = "id"
         /\ line.args[LabelPos(line.op)].n \in DOMAIN table)

---------------------------------------------------------------------------
(* The source program, read independently of the assembler's passes.       *)

InstrLinesOf == {i \in 1..Len(source) : source[i].k = "instr"}
LabelLinesOf == {i \in 1..Len(source) : source[i].k = "label"}
NumInstr == Cardinality(InstrLinesOf)
\* Number of instruction lines before source line i.
InstrBefore(i) == Cardinality({j \in InstrLinesOf : j < i})
DefLines(l) == {i \in LabelLinesOf : source[i].name = l}
FirstDef(l) == CHOOSE i \in DefLines(l) : \A j \in DefLines(l) : i <= j
\* The source line of the k-th instruction, k = 1..NumInstr.
NthInstrLine(k) == CHOOSE i \in InstrLinesOf : InstrBefore(i) = k - 1
\* Source lines that define a label an earlier line has defined.
DuplicateDefs == {j \in LabelLinesOf : \E i \in LabelLinesOf :
                      i < j /\ source[i].name = source[j].name}
FirstDuplicate == CHOOSE j \in DuplicateDefs : \A k \in DuplicateDefs : j <= k

Encoding(i) == assemble_line(cleaned_lines[i].line, label_table)

---------------------------------------------------------------------------
(* Claims about single calls of the codec, checked under SpecCodec.        *)

IsAssembleCall == call.fn = "assemble_line"

\* C1: round trip. For every valid instruction, the disassembly of the word
\* assemble_line returns renders the same mnemonic and the same operand
\* values in the same order, labels compared as their resolved addresses.
C1_RoundTrip ==
    (IsAssembleCall /\ ValidInstr(call.line, call.table)) =>
        /\ cpc = "returned" => result.err = ""
        /\ cpc = "decoded" => text = Canonical(call.line, call.table)

\* The round trip of C1 for every mnemonic outside the register-immediate
\* group cmbi, mnsi, mlti, dvdi.
RoundTripOutsideRegImm ==
    (IsAssembleCall /\ ValidInstr(call.line, call.table)
     /\ call.line.op \notin {"cmbi", "mnsi", "mlti", "dvdi"}) =>
        /\ cpc = "returned" => result.err = ""
        /\ cpc = "decoded" => text = Canonical(call.line, call.table)

\* C2: width invariant. For every valid instruction of every mnemonic
\* group, the register-immediate group included, the word assemble_line
\* returns is exactly 32 characters long.
C2_WidthInvariant ==
    (IsAssembleCall /\ cpc = "returned" /\ ValidInstr(call.line, call.table)) =>
        /\ result.err = ""
        /\ Len(result.bin) = 32

\* The width of C2 for every mnemonic outside the register-immediate group.
WidthOutsideRegImm ==
    (IsAssembleCall /\ cpc = "returned" /\ ValidInstr(call.line, call.table)
     /\ call.line.op \notin {"cmbi", "mnsi", "mlti", "dvdi"}) =>
        /\ result.err = ""
        /\ Len(result.bin) = 32

\* C8: unsigned range enforcement. For every field width w the assembler
\* uses (15, 16, 21), parse_immediate accepts 2^w - 1 and encodes it as w
\* one-bits, and rejects 2^w.
C8_UnsignedRange ==
    (cpc = "returned" /\ call.fn = "parse_immediate" /\ call.tok.k = "int"
     /\ call.bits \in {15, 16, 21}) =>
        /\ call.tok.v = 2 ^ call.bits - 1 =>
               result.err = "" /\ result.bin = Ones(call.bits)
        /\ call.tok.v = 2 ^ call.bits =>
               result.err = "InvalidImmediate" /\ result.bin = <<>>

\* parse_immediate has returned w one-bits for 2^w - 1, w = 21.
C8_Witness ==
    /\ cpc = "returned" /\ call.fn = "parse_immediate"
    /\ call.bits = 21 /\ call.tok = Num(2097151)
    /\ result = Ok(Ones(21))

\* The value the disassembler renders for the immediate or offset operand.
DecodedImm == text.args[ImmPos(call.line.op)].v

\* C9: signedness-aware range check. Into a signed field (ldwd/srwd 16-bit
\* offset, pstr 21-bit offset, ldim 21-bit immediate) the assembler refuses
\* every value outside [-2^(w-1), 2^(w-1)-1]; into an unsigned field (cmbi,
\* mnsi, mlti, dvdi 15-bit immediate) it refuses every negative value and
\* every value above 2^w - 1; every accepted value is decoded back to the
\* same integer.
C9_SignednessAwareRange ==
    (IsAssembleCall /\ HasImm(call.line)) =>
        /\ (cpc = "returned"
            /\ ~InRange(ImmValue(call.line), ImmWidth(call.line.op),
                        ImmSigned(call.line.op)))
           => result.err # ""
        /\ cpc = "decoded" => /\ Len(text.args) >= ImmPos(call.line.op)
                              /\ DecodedImm = ImmValue(call.line)

\* What holds of the signed fields: a value inside the signed range is
\* decoded back to the same integer.
SignedInRangeDecodes ==
    (IsAssembleCall /\ HasImm(call.line) /\ ImmSigned(call.line.op)
     /\ cpc = "decoded"
     /\ InRange(ImmValue(call.line), ImmWidth(call.line.op), TRUE)) =>
        DecodedImm = ImmValue(call.line)

---------------------------------------------------------------------------
(* Claims about a run of run_assembler, checked under Spec.                *)

PassFailed == error \in {"pass1", "pass2", "width"}

\* C3: atomic assembly. When a line fails in Pass 1 or an instruction fails
\* in Pass 2, the output file is never opened or written; the write step is
\* reached only after every recorded instruction has been encoded.
C3_AtomicAssembly ==
    /\ PassFailed => pc = "exit" /\ ~opened /\ outfile = <<>>
    /\ (opened \/ pc \in {"open", "write", "done"}) =>
          /\ ~PassFailed
          /\ DuplicateDefs = {}
          /\ line_num = Len(source)
          /\ Len(cleaned_lines) = NumInstr
          /\ pos2 = Len(cleaned_lines)
          /\ Len(assembled_code) = Len(cleaned_lines)
          /\ \A i \in 1..Len(cleaned_lines) :
                /\ Encoding(i).err = ""
                /\ Len(Encoding(i).bin) = 32
                /\ assembled_code[i] = Encoding(i).bin

\* Pass 2 has failed on the third instruction, after two words were
\* encoded, and nothing was opened.
C3_Witness ==
    /\ pc = "exit" /\ error \in {"pass2", "width"}
    /\ Len(assembled_code) = 2 /\ pos2 = 2
    /\ ~opened /\ outfile = <<>>

\* C4: Pass 1 label binding. Every label is bound to the number of
\* instruction lines before its definition (blank lines, comment lines and
\* label definitions do not count), and after Pass 1 every label the source
\* defines is bound; a label after the last instruction is bound to the
\* total instruction count.
C4_LabelBinding ==
    /\ \A l \in DOMAIN label_table :
          /\ DefLines(l) # {}
          /\ FirstDef(l) <= line_num
          /\ label_table[l] = InstrBefore(FirstDef(l))
    /\ pc = "pass2" =>
          /\ DOMAIN label_table = {source[i].name : i \in LabelLinesOf}
          /\ \A l \in DOMAIN label_table :
                (\A i \in InstrLinesOf : i < FirstDef(l)) => label_table[l] = NumInstr

\* Pass 1 is over and a label on source line 3, after an instruction and a
\* line that is no instruction, is bound to address 1.
C4_Witness ==
    /\ pc = "pass2"
    /\ \E l \in DOMAIN label_table :
          /\ FirstDef(l) = 3
          /\ label_table[l] = 1

\* Label name -> address, from the source alone.
SourceTable ==
    [l \in {source[i].name : i \in LabelLinesOf} |-> InstrBefore(FirstDef(l))]

\* The address field of the i-th encoded word, as a number.
AddrFieldValue(i) ==
    LET op == cleaned_lines[i].line.op
    IN  bin_to_int(Slice(assembled_code[i], AddrStart(op), AddrStart(op) + AddrWidth(op)))

RefLabel(i) == cleaned_lines[i].line.args[LabelPos(cleaned_lines[i].line.op)].n

\* C5: forward reference. A jmp, for, ife, ifne or ldad naming a label that
\* is defined later in the source is encoded, and its address field holds
\* the address of the label, the same field an identical instruction after
\* the definition gets; for ife it is the 16-bit binary value of the address.
C5_ForwardReference ==
    /\ \A i \in 1..Len(assembled_code) :
          cleaned_lines[i].line.op \in LabelOps =>
              /\ DefLines(RefLabel(i)) # {}
              /\ Len(assembled_code[i]) = 32
              /\ AddrFieldValue(i) = InstrBefore(FirstDef(RefLabel(i)))
    /\ \A i, j \in 1..Len(assembled_code) :
          cleaned_lines[i].line = cleaned_lines[j].line =>
              assembled_code[i] = assembled_code[j]
    /\ error = "pass2" => ~ValidInstr(cleaned_lines[pos2 + 1].line, SourceTable)

\* An ife on source line 1 is encoded with address 2, the address of a label
\* defined on line 3.
C5_Witness ==
    /\ Len(assembled_code) >= 1
    /\ cleaned_lines[1].line.op = "ife"
    /\ cleaned_lines[1].orig_line = 1
    /\ FirstDef(RefLabel(1)) = 3
    /\ Slice(assembled_code[1], 16, 32) = <<0,0,0,0,0,0,0,0,0,0,0,0,0,0,1,0>>

\* C6: duplicate label. When a label is defined on two lines of a program,
\* the run fails in Pass 1 at the second definition, Pass 2 never starts
\* and no output is produced.
C6_DuplicateLabel ==
    DuplicateDefs # {} =>
        /\ pc \in {"pass1", "exit"}
        /\ line_num <= FirstDuplicate
        /\ (line_num = FirstDuplicate) = (pc = "exit")
        /\ pc = "exit" => error = "pass1"
        /\ pos2 = 0 /\ assembled_code = <<>>
        /\ ~opened /\ outfile = <<>>

\* The run has failed in Pass 1 on line 3, the second definition of the
\* label of line 1, with an instruction between them.
C6_Witness ==
    /\ pc = "exit" /\ error = "pass1" /\ line_num = 3
    /\ source[1].k = "label" /\ source[2].k = "instr" /\ source[3].k = "label"
    /\ source[1].name = source[3].name

\* C7: undefined label. Once Pass 1 has built the Label Table, a jmp, for,
\* ife, ifne or ldad whose label operand is not in it is never encoded into
\* a word (assemble_line raises), and the run never reaches the output.
C7_UndefinedLabel ==
    (pc # "pass1" /\ error # "pass1") =>
        \A i \in 1..Len(cleaned_lines) :
            UndefinedRef(cleaned_lines[i].line, label_table) =>
                /\ Encoding(i).err # "" /\ Encoding(i).bin = <<>>
                /\ pos2 < i /\ Len(assembled_code) < i
                /\ pc \in {"pass2", "exit"}
                /\ pc = "exit" => error \in {"pass2", "width"}
                /\ ~opened /\ outfile = <<>>

\* The run has failed in Pass 2 on its second instruction, whose label is
\* in no line of the source.
C7_Witness ==
    /\ pc = "exit" /\ error = "pass2" /\ pos2 = 1
    /\ UndefinedRef(cleaned_lines[2].line, label_table)
    /\ Encoding(2).err = "UndefinedLabel"

\* C10: output ordering. On a successful run the output holds one word per
\* instruction line of the source, in source order; the word at 0-based
\* position i encodes the instruction Pass 1 recorded with address i; the
\* address of a label is the output position of the instruction after it.
C10_OutputOrdering ==
    pc = "done" =>
        /\ Len(outfile) = NumInstr
        /\ Len(cleaned_lines) = NumInstr
        /\ \A k \in 1..NumInstr :
              /\ cleaned_lines[k].addr = k - 1
              /\ cleaned_lines[k].orig_line = NthInstrLine(k)
              /\ cleaned_lines[k].line = source[NthInstrLine(k)].ins
              /\ outfile[k] = assemble_line(source[NthInstrLine(k)].ins, label_table).bin
        /\ \A l \in DOMAIN label_table :
              \A i \in InstrLinesOf :
                  (i > FirstDef(l) /\ \A j \in InstrLinesOf : j > FirstDef(l) => i <= j)
                      => /\ label_table[l] < Len(outfile)
                         /\ outfile[label_table[l] + 1] =
                                assemble_line(source[i].ins, label_table).bin

\* A successful run has written two different words, the second one at the
\* address of a label.
C10_Witness ==
    /\ pc = "done" /\ Len(outfile) = 2
    /\ outfile[1] # outfile[2]
    /\ \E l \in DOMAIN label_table : label_table[l] = 1

---------------------------------------------------------------------------
(* run_disassembler(input_filename, output_filename)                       *)
(*                                                                         *)
(* An input line is held as binary_line.strip(): a sequence of 0/1 of any  *)
(* length, empty for a blank line.                                         *)

MaxWords == 3

WordSamples ==
    { assemble_line(Instr("ldim", <<Num(10), Reg(1)>>), EmptyTable).bin,
      assemble_line(Instr("ife", <<Reg(1), Reg(2), Id("skip")>>), ("skip" :> 2)).bin,
      Ones(32),
      Zeros(32),
      <<1,0,0,0,0,0>> \o Zeros(26),
      <<0,1,1,1,1,1>> \o Ones(26),
      Zeros(31) \o <<1>>,
      Ones(31) \o <<0>> }

BadLengthSamples == { Zeros(31), Ones(33), <<0,0,0,0,0,1>> }

InputLines == WordSamples \cup BadLengthSamples \cup {<<>>}

Inputs == UNION {[1..n -> InputLines] : n \in 0..MaxWords}

DisInit ==
    /\ source = <<>>
    /\ pc = "idle"
    /\ line_num = 0
    /\ label_table = EmptyTable
    /\ cleaned_lines = <<>>
    /\ current_address = 0
    /\ pos2 = 0
    /\ assembled_code = <<>>
    /\ opened = FALSE
    /\ outfile = <<>>
    /\ error = ""
    /\ call = NoCall
    /\ result = NoResult
    /\ text = NoInstr
    /\ cpc = "idle"
    /\ again = NoResult
    /\ binary_lines \in Inputs
    /\ address = 0
    /\ disassembled_lines = <<>>
    /\ dpc = "pass"
    /\ dis_opened = FALSE
    /\ dis_outfile = <<>>
    /\ dis_error = ""

\* The line the disassembly pass is at, stripped; its index is `address`.
binary_line == binary_lines[address + 1]

\* The marker run_disassembler itself appends for a line of a wrong length.
ErrInvalidLength(address_) == Instr("; Error: Invalid length", <<Num(address_)>>)

UnknownOpcode(w) == Slice(w, 0, 6) \notin {opcodes[m] : m \in DOMAIN opcodes}

\* DisInvalidLength without the marker.
DisInvalidLength_Silent ==
    /\ dpc = "pass" /\ address < Len(binary_lines)
    /\ binary_line # <<>>
    /\ Len(binary_line) # 32
    /\ address' = address + 1
    /\ UNCHANGED <<runVars, codecVars, binary_lines, disassembled_lines, dpc,
                   dis_opened, dis_outfile, dis_error>>

\* DisWord putting the decoded line first.
DisWord_Prepend ==
    /\ dpc = "pass" /\ address < Len(binary_lines)
    /\ Len(binary_line) = 32
    /\ disassembled_lines' =
           <<disassemble_instruction(binary_line, address)>> \o disassembled_lines
    /\ address' = address + 1
    /\ UNCHANGED <<runVars, codecVars, binary_lines, dpc,
                   dis_opened, dis_outfile, dis_error>>

\* DisWord ending the run on a word of an undefined opcode.
DisWord_Abort ==
    /\ dpc = "pass" /\ address < Len(binary_lines)
    /\ Len(binary_line) = 32
    /\ IF UnknownOpcode(binary_line)
       THEN /\ dpc' = "exit"
            /\ dis_error' = "opcode"
            /\ UNCHANGED <<address, disassembled_lines>>
       ELSE /\ disassembled_lines' =
                   Append(disassembled_lines,
                          disassemble_instruction(binary_line, address))
            /\ address' = address + 1
            /\ UNCHANGED <<dpc, dis_error>>
    /\ UNCHANGED <<runVars, codecVars, binary_lines, dis_opened, dis_outfile>>

\* An empty line: continue, nothing is appended.
DisSkipEmpty ==
    /\ dpc = "pass" /\ address < Len(binary_lines)
    /\ binary_line = <<>>
    /\ address' = address + 1
    /\ UNCHANGED <<runVars, codecVars, binary_lines, disassembled_lines, dpc,
                   dis_opened, dis_outfile, dis_error>>

\* A line that is not 32 characters long: a marker is appended, continue.
DisInvalidLength ==
    /\ dpc = "pass" /\ address < Len(binary_lines)
    /\ binary_line # <<>>
    /\ Len(binary_line) # 32
    /\ disassembled_lines' = Append(disassembled_lines, ErrInvalidLength(address))
    /\ address' = address + 1
    /\ UNCHANGED <<runVars, codecVars, binary_lines, dpc,
                   dis_opened, dis_outfile, dis_error>>

\* A line of 32 characters: what disassemble_instruction returns is appended.
DisWord ==
    /\ dpc = "pass" /\ address < Len(binary_lines)
    /\ Len(binary_line) = 32
    /\ disassembled_lines' =
           Append(disassembled_lines, disassemble_instruction(binary_line, address))
    /\ address' = address + 1
    /\ UNCHANGED <<runVars, codecVars, binary_lines, dpc,
                   dis_opened, dis_outfile, dis_error>>

\* The input is exhausted: go on to write the output.
DisPassComplete ==
    /\ dpc = "pass" /\ address = Len(binary_lines)
    /\ dpc' = "open"
    /\ UNCHANGED <<runVars, codecVars, binary_lines, address, disassembled_lines,
                   dis_opened, dis_outfile, dis_error>>

\* open(output_filename, "w")
DisOpenOutput ==
    /\ dpc = "open"
    /\ dis_opened' = TRUE
    /\ dis_outfile' = <<>>
    /\ dpc' = "write"
    /\ UNCHANGED <<runVars, codecVars, binary_lines, address, disassembled_lines,
                   dis_error>>

\* outfile.write(asm_line + "\n")
DisWriteLine ==
    /\ dpc = "write" /\ Len(dis_outfile) < Len(disassembled_lines)
    /\ dis_outfile' = Append(dis_outfile, disassembled_lines[Len(dis_outfile) + 1])
    /\ UNCHANGED <<runVars, codecVars, binary_lines, address, disassembled_lines,
                   dpc, dis_opened, dis_error>>

\* The with block ends: "Disassembly complete."
DisCloseOutput ==
    /\ dpc = "write" /\ Len(dis_outfile) = Len(disassembled_lines)
    /\ dpc' = "done"
    /\ UNCHANGED <<runVars, codecVars, binary_lines, address, disassembled_lines,
                   dis_opened, dis_outfile, dis_error>>

\* The file system refuses the open or a write: IOError, sys.exit(1).
DisWriteIOError ==
    /\ dpc \in {"open", "write"}
    /\ dpc' = "exit"
    /\ dis_error' = "io"
    /\ UNCHANGED <<runVars, codecVars, binary_lines, address, disassembled_lines,
                   dis_opened, dis_outfile>>

DisNext ==
    \/ DisSkipEmpty
    \/ DisInvalidLength
    \/ DisWord
    \/ DisPassComplete
    \/ DisOpenOutput
    \/ DisWriteLine
    \/ DisCloseOutput
    \/ DisWriteIOError

SpecDis == DisInit /\ [][DisNext]_vars

---------------------------------------------------------------------------
(* The disassembly pass as a function of the input lines: the lines the    *)
(* loop of run_disassembler appends from index address_ on.                *)

RECURSIVE DisassemblyPass(_, _)
DisassemblyPass(lines, address_) ==
    IF address_ >= Len(lines) THEN <<>>
    ELSE LET l == lines[address_ + 1]
             rest == DisassemblyPass(lines, address_ + 1)
         IN IF l = <<>> THEN rest
            ELSE IF Len(l) # 32 THEN <<ErrInvalidLength(address_)>> \o rest
            ELSE <<disassemble_instruction(l, address_)>> \o rest

\* The state machine and the function agree on what a run appends.
PassAgrees ==
    dpc \in {"open", "write", "done"} =>
        disassembled_lines = DisassemblyPass(binary_lines, 0)

RemoveAt(s, i) == SubSeq(s, 1, i - 1) \o SubSeq(s, i + 1, Len(s))

IsMarker(l) == l.op \in {ErrInvalidLength(0).op, ErrLength(0).op, ErrOpcode(0).op,
                         ErrNotImplemented.op}

\* An output line without the address a marker carries.
StripAddress(l) == IF IsMarker(l) THEN Instr(l.op, <<>>) ELSE l

StripAddresses(ls) == [k \in 1..Len(ls) |-> StripAddress(ls[k])]

\* Output position of input line i: blank lines before it append nothing.
OutPos(i) == Cardinality({k \in 1..i : binary_lines[k] # <<>>})

\* The only way a run of the disassembler ends in sys.exit(1) once the input
\* is read is a failure of the file system, and the pass ends only when it
\* has gone through every input line.
NeverAbortsOnInput ==
    /\ dpc = "exit" => dis_error = "io"
    /\ dpc # "pass" => address = Len(binary_lines)

RECURSIVE NonBlank(_)
NonBlank(n) ==
    IF n = 0 THEN <<>>
    ELSE IF binary_lines[n] = <<>> THEN NonBlank(n - 1)
    ELSE Append(NonBlank(n - 1), n)

UndefinedOpcodesMarked ==
    (binary_lines = <<>> /\ dpc = "pass") =>
        /\ Cardinality({o \in OpcodeFields : UnknownOpcode(o \o Zeros(26))}) = 41
        /\ \A w \in OpcodeWords :
              UnknownOpcode(w) => disassemble_instruction(w, 7) = ErrOpcode(7)

\* C13: a 32-bit word whose first 6 bits are none of the 23 defined opcodes
\* disassembles to the unknown-opcode marker; the run appends the marker at
\* the word's position, goes on with the next line, is never aborted by the
\* word, and what it writes holds the marker at that position.
C13_UnknownOpcode ==
    /\ Cardinality(DOMAIN opcodes) = 23
    /\ UndefinedOpcodesMarked
    /\ NeverAbortsOnInput
    /\ \A i \in 1..Len(binary_lines) :
          (Len(binary_lines[i]) = 32 /\ UnknownOpcode(binary_lines[i])) =>
             /\ (dpc = "pass" /\ address >= i) =>
                    /\ Len(disassembled_lines) >= OutPos(i)
                    /\ disassembled_lines[OutPos(i)] = ErrOpcode(i - 1)
             /\ dpc = "done" =>
                    /\ Len(dis_outfile) = OutPos(Len(binary_lines))
                    /\ dis_outfile[OutPos(i)] = ErrOpcode(i - 1)

\* A completed run whose input has a word of an undefined opcode followed by
\* a word that decodes: the marker and the instruction are both written.
C13_Witness ==
    /\ dpc = "done"
    /\ Len(binary_lines) >= 2
    /\ UnknownOpcode(binary_lines[1]) /\ Len(binary_lines[1]) = 32
    /\ dis_outfile[1] = ErrOpcode(0)
    /\ Len(dis_outfile) >= 2
    /\ dis_outfile[2].op = "ife"

---------------------------------------------------------------------------
(* Claims about re-assembly, the tables, operand counts, field layout,     *)
(* the full-width words and memory operands, checked under SpecCodec.      *)

\* A word assemble_line has emitted: the call returned 32 characters.
EmittedWord == IsAssembleCall /\ result.err = "" /\ Len(result.bin) = WordLen

\* C14: re-assembly. For every 32-bit word assemble_line emits, the label
\* instructions included, assemble_line applied to the disassembler's text
\* for that word succeeds and returns the identical word.
C14_Reassembly ==
    (cpc = "reassembled" /\ EmittedWord) =>
        /\ again.err = ""
        /\ again.bin = result.bin

\* What does hold: the words of the instructions that carry no label.
ReassemblyOutsideLabels ==
    (cpc = "reassembled" /\ EmittedWord /\ call.line.op \notin LabelOps) =>
        /\ again.err = ""
        /\ again.bin = result.bin

\* And every word of a label instruction fails to re-assemble.
LabelWordsNeverReassemble ==
    (cpc = "reassembled" /\ EmittedWord /\ call.line.op \in LabelOps) =>
        again.err = "UndefinedLabel"

\* C15: the tables. No two mnemonics share an opcode and no two registers a
\* code; opcodes_to_mnemonics and registers_to_names are exactly the inverses
\* of opcodes and registers; each of the 32 five-bit codes names a register;
\* and a word the assembler emits is read back with the mnemonic, and a pint
\* word with the register, it was built from.
C15_TablesAgree ==
    /\ \A m1 \in DOMAIN opcodes : \A m2 \in DOMAIN opcodes :
          opcodes[m1] = opcodes[m2] => m1 = m2
    /\ \A r1 \in DOMAIN registers : \A r2 \in DOMAIN registers :
          registers[r1] = registers[r2] => r1 = r2
    /\ \A m \in DOMAIN opcodes : Len(opcodes[m]) = 6
    /\ DOMAIN opcodes_to_mnemonics = {opcodes[m] : m \in DOMAIN opcodes}
    /\ \A m \in DOMAIN opcodes : opcodes_to_mnemonics[opcodes[m]] = m
    /\ DOMAIN registers_to_names = {registers[r] : r \in DOMAIN registers}
    /\ \A r \in DOMAIN registers : registers_to_names[registers[r]] = r
    /\ \A b \in [1..5 -> {0, 1}] :
          \E c \in DOMAIN registers_to_names : \A i \in 1..5 : c[i] = b[i]
    /\ (cpc \in {"decoded", "reassembled"} /\ EmittedWord) =>
          /\ text.op = call.line.op
          /\ call.line.op = "pint" => text.args = call.line.args

\* The word of "pint %r31" has been disassembled.
C15_Witness ==
    /\ cpc = "decoded"
    /\ EmittedWord
    /\ call.line = Instr("pint", <<Reg(31)>>)
    /\ text = call.line

\* The number of operands the format of a mnemonic asks for (section 4.1).
OperandsRequired(op) ==
    IF op \in {"clr", "end"} THEN 0
    ELSE IF op \in {"jmp", "pint", "pstr"} THEN 1
    ELSE IF op \in {"ldwd", "srwd", "for", "sqrt", "sqr", "ldad", "ldim"} THEN 2
    ELSE 3

WrongOperandCount ==
    /\ IsAssembleCall
    /\ call.line.op \in DOMAIN opcodes
    /\ Len(call.line.args) # OperandsRequired(call.line.op)

\* C16: operand count. For every mnemonic, clr and end included, a line
\* whose number of operands differs from the number its format requires
\* makes assemble_line fail: it returns no word.
C16_OperandCount ==
    (cpc = "returned" /\ WrongOperandCount) => result.err # ""

\* What does hold: every mnemonic other than clr and end.
OperandCountOutsideClrEnd ==
    (cpc = "returned" /\ WrongOperandCount /\ call.line.op \notin {"clr", "end"}) =>
        result.err # ""

\* The documented layouts (section 4.1), written from the table of the
\* specification: a field of w bits holding n, most significant bit first.
Bits(n, w) == [i \in 1..w |-> (n \div (2 ^ (w - i))) % 2]
TwosComplement(v, w) == Bits(v % (2 ^ w), w)

LayoutWord(line, table) ==
    LET op == line.op
        a == line.args
        opf == opcodes[op]
        rg(i) == Bits(a[i].v, 5)
        base(i) == Bits(a[i].r, 5)
        addr(i, w) == Bits(table[a[i].n], w)
    IN  IF op = "clr" THEN Zeros(32)
        ELSE IF op = "end" THEN Ones(32)
        ELSE IF op \in {"cmb", "mns", "mlt", "dvd", "mdlo"}
            THEN opf \o rg(1) \o rg(2) \o rg(3) \o Zeros(11)
        ELSE IF op \in {"cmbi", "mnsi", "mlti", "dvdi"}
            THEN opf \o rg(1) \o Bits(a[2].v, 15) \o rg(3)
        ELSE IF op = "ldwd"
            THEN opf \o base(1) \o rg(2) \o TwosComplement(a[1].v, 16)
        ELSE IF op = "srwd"
            THEN opf \o base(2) \o rg(1) \o TwosComplement(a[2].v, 16)
        ELSE IF op = "jmp" THEN opf \o addr(1, 26)
        ELSE IF op = "pint" THEN opf \o rg(1) \o Zeros(21)
        ELSE IF op = "pstr" THEN opf \o TwosComplement(a[1].v, 21) \o base(1)
        ELSE IF op = "for" THEN opf \o rg(1) \o addr(2, 21)
        ELSE IF op \in {"sqrt", "sqr"} THEN opf \o rg(1) \o rg(2) \o Zeros(16)
        ELSE IF op \in {"ife", "ifne"} THEN opf \o rg(1) \o rg(2) \o addr(3, 16)
        ELSE IF op = "ldad" THEN opf \o addr(1, 21) \o rg(2)
        ELSE opf \o TwosComplement(a[1].v, 21) \o rg(2)

DecodedWord == IF IsAssembleCall THEN result.bin ELSE call.word

\* C18: the full-width words. "end" assembles to 32 ones and "clr" to 32
\* zeros; disassemble_instruction answers end for the all-ones word only and
\* clr for the all-zeros word only, and every other 32-bit word whose opcode
\* field is 111111 or 000000 is answered with an error marker.
C18_FullWidthWords ==
    /\ (IsAssembleCall /\ cpc # "call" /\ call.line = Instr("end", <<>>)) =>
          result = Ok(Ones(32))
    /\ (IsAssembleCall /\ cpc # "call" /\ call.line = Instr("clr", <<>>)) =>
          result = Ok(Zeros(32))
    /\ cpc \in {"decoded", "reassembled"} =>
          /\ text.op = "end" <=> DecodedWord = Ones(32)
          /\ text.op = "clr" <=> DecodedWord = Zeros(32)
          /\ (/\ Len(DecodedWord) = 32
              /\ Slice(DecodedWord, 0, 6) \in {Ones(6), Zeros(6)}
              /\ DecodedWord \notin {Ones(32), Zeros(32)}) => IsMarker(text)

\* A word of opcode 111111 that is not all ones has been disassembled to a
\* marker.
C18_Witness ==
    /\ cpc = "decoded"
    /\ call.fn = "disassemble_instruction"
    /\ call.word = Ones(6) \o Zeros(26)
    /\ text = ErrNotImplemented

\* The memory operand of a ldwd, srwd or pstr line.
MemOps == {"ldwd", "srwd", "pstr"}
MemPos(op) == IF op = "srwd" THEN 2 ELSE 1
HasMemOperand(line) == line.op \in MemOps /\ Len(line.args) = OperandsRequired(line.op)
MemOperand(line) == line.args[MemPos(line.op)]

\* The two shapes of the specification: "<signed-integer>(<register>)" and
\* "(<register>)", nothing before and nothing after.
WellShaped(t) == t.k \in {"mem", "mem0"}

\* C19: memory operands. parse_memory_address accepts exactly the two shapes,
\* "(<register>)" as offset 0, and fails on every other text, text with
\* characters after the closing parenthesis included; and a line whose memory
\* operand is not of these shapes or names no register of %r0..%r31 is never
\* encoded.
C19_MemoryOperand ==
    /\ (call.fn = "parse_memory_address" /\ cpc = "returned") =>
          /\ WellShaped(call.tok) <=> result.err = ""
          /\ call.tok.k = "mem" =>
                (result.offset = call.tok.v /\ result.reg = Reg(call.tok.r))
          /\ call.tok.k = "mem0" =>
                (result.offset = 0 /\ result.reg = Reg(call.tok.r))
    /\ (/\ IsAssembleCall /\ cpc = "returned" /\ HasMemOperand(call.line)
        /\ (\/ ~WellShaped(MemOperand(call.line))
            \/ MemOperand(call.line).r \notin 0..31)) => result.err # ""

\* What does hold: the two shapes are accepted whatever follows the closing
\* parenthesis, every text that does not begin with one of them is refused,
\* and a register outside %r0..%r31 never reaches a word.
MemoryOperandPrefix ==
    /\ (call.fn = "parse_memory_address" /\ cpc = "returned") =>
          (call.tok.k \in {"mem", "mem0", "memj", "mem0j"} <=> result.err = "")
    /\ (/\ IsAssembleCall /\ cpc = "returned" /\ HasMemOperand(call.line)
        /\ (\/ MemOperand(call.line).k \notin {"mem", "mem0", "memj", "mem0j"}
            \/ MemOperand(call.line).r \notin 0..31)) => result.err # ""

---------------------------------------------------------------------------
(* run_assembler on long programs.  A label address outgrows its field     *)
(* only after 2^16, 2^21 or 2^26 instructions.  The run is taken up in     *)
(* Pass 1 after `Elided` leading lines, each the instruction "end": these  *)
(* lines, their records in cleaned_lines, their words (32 ones each) and   *)
(* their output lines are left out of source, cleaned_lines,               *)
(* assembled_code and outfile; current_address counts them.                *)

MaxLongLines == 2

ElidedSamples == {0, 65535, 65536, 2097151, 2097152, 67108863, 67108864}

LongSources == UNION {[1..n -> Lines] : n \in 0..MaxLongLines}

LongInit ==
    /\ source \in LongSources
    /\ pc = "pass1"
    /\ line_num = 0
    /\ label_table = EmptyTable
    /\ cleaned_lines = <<>>
    /\ current_address \in ElidedSamples
    /\ pos2 = 0
    /\ assembled_code = <<>>
    /\ opened = FALSE
    /\ outfile = <<>>
    /\ error = ""
    /\ call = NoCall
    /\ result = NoResult
    /\ text = NoInstr
    /\ cpc = "idle"
    /\ again = NoResult
    /\ binary_lines = <<>>
    /\ address = 0
    /\ disassembled_lines = <<>>
    /\ dpc = "idle"
    /\ dis_opened = FALSE
    /\ dis_outfile = <<>>
    /\ dis_error = ""

SpecLong == LongInit /\ [][Next]_vars

\* The leading "end" lines left out of the state.
Elided == current_address - Len(cleaned_lines)

\* Cleaned line i is a label instruction with its registers in %r0..%r31
\* whose label is bound to an address that does not fit its address field.
OverLongRef(i) ==
    LET l == cleaned_lines[i].line IN
    /\ l.op \in LabelOps
    /\ Len(l.args) = OperandsRequired(l.op)
    /\ \A j \in 1..Len(l.args) : j # LabelPos(l.op) => IsReg(l.args[j])
    /\ l.args[LabelPos(l.op)].k = "id"
    /\ l.args[LabelPos(l.op)].n \in DOMAIN label_table
    /\ label_table[l.args[LabelPos(l.op)].n] >= 2 ^ AddrWidth(l.op)

\* The digits of the address in the string assemble_line returns for
\* cleaned line i: all that follows the fields before the address, less
\* the register field that follows it in ldad.
AddrDigits(i) ==
    LET l == cleaned_lines[i].line
        b == Encoding(i).bin
    IN  SubSeq(b, AddrStart(l.op) + 1,
               IF l.op = "ldad" THEN Len(b) - 5 ELSE Len(b))

IsWord(w) == Len(w) = 32 /\ \A i \in 1..Len(w) : w[i] \in {0, 1}

\* C20: every line run_assembler writes is 32 characters of 0/1.  When the
\* address of a label does not fit the address field of an instruction that
\* refers to it, assemble_line returns a string longer than 32 characters
\* that holds every digit of the address; Pass 2 never appends a word for
\* that instruction, the run ends at the width check or earlier, and the
\* output file is never opened.
C20_WrittenWords ==
    /\ \A k \in 1..Len(outfile) : IsWord(outfile[k])
    /\ \A k \in 1..Len(assembled_code) : IsWord(assembled_code[k])
    /\ error = "width" => (pc = "exit" /\ ~opened /\ outfile = <<>>)
    /\ \A i \in 1..Len(cleaned_lines) :
          (pc # "pass1" /\ OverLongRef(i)) =>
             /\ Encoding(i).err = ""
             /\ Len(Encoding(i).bin) > 32
             /\ bin_to_int(AddrDigits(i)) =
                   label_table[cleaned_lines[i].line.args[
                                   LabelPos(cleaned_lines[i].line.op)].n]
             /\ pos2 < i
             /\ pos2 = i - 1 => ~ENABLED Pass2Encode
             /\ pc \notin {"open", "write", "done"}
             /\ ~opened /\ outfile = <<>>

\* A run that has ended at the width check on a jmp whose target is
\* instruction 2^26.
C20_Witness ==
    /\ pc = "exit" /\ error = "width"
    /\ pos2 < Len(cleaned_lines)
    /\ OverLongRef(pos2 + 1)
    /\ cleaned_lines[pos2 + 1].line.op = "jmp"
    /\ Elided = 67108864

=============================================================================
